---- MODULE Spec2Model ----
(***************************************************************************)
(* Payment orchestration core of aspin-integration-service:                *)
(*   PaymentService (initiatePayment, handleWebhook, determineGateway),     *)
(*   IdempotencyService (get, set, cleanup), AspinPaymentService            *)
(*   (notifyPaymentSuccess/Failure, sendPaymentUpdate), AspinAuthService    *)
(*   (getAccessToken, authenticate) and the mock PaymentGatewayService.     *)
(* Every action is one turn of the event loop: the code an async function   *)
(* runs between two awaits that wait for the network, a timer or a caller.  *)
(* Time is in seconds; Date comparisons are modelled on whole seconds.      *)
(***************************************************************************)
EXTENDS Integers, Sequences, FiniteSets, TLC

\* ---- bounds of the model ------------------------------------------------
MaxCalls == 3         \* handler invocations (initiatePayment and handleWebhook)
MaxTicks == 2         \* clock advances
MaxRouted == 2        \* records stored when the routing is exercised

\* ---- program constants ---------------------------------------------------
ttl == 86400          \* config.idempotency.ttl
TokenBuffer == 60     \* authenticate: expires_in - 60
KesAmount == 5000     \* initiatePayment: KES amount rule

\* the clock is observed at multiples of the ledger ttl
TickStep == ttl
\* expires_in values of a token response
ExpiresInValues == {30, 3600}

InitIds == 1..MaxCalls
Slots == 1..MaxCalls
TxnIds == 1..MaxCalls

MsisdnMpesa == <<0,0,2,5,4,7,1,2,3,4,5,6,7,8>>

\* initiation requests handed to initiatePayment: one that passes the amount rule,
\* one that does not
Requests ==
  { [policy_guid |-> "P1", amount |-> 5000, currency |-> "KES", msisdn |-> MsisdnMpesa],
    [policy_guid |-> "P1", amount |-> 3000, currency |-> "KES", msisdn |-> MsisdnMpesa] }

\* subscriber identifiers handed to determineGateway, cut after the digits the
\* routing reads: 00254 followed by 70..79, 00254 alone, 00254 followed by a
\* digit other than 7, and two identifiers of other countries
RoutingMsisdns ==
  { <<0,0,2,5,4,7,d>> : d \in 0..9 }
    \cup { <<0,0,2,5,4>>, <<0,0,2,5,4,1,1>>, <<0,0,2,5,6,7,0>>, <<0,0,2,5,5,7,3>> }

\* initiation requests that pass the amount rule, one per identifier
RoutingRequests ==
  { [policy_guid |-> "P1", amount |-> KesAmount, currency |-> "KES", msisdn |-> m] :
      m \in RoutingMsisdns }

\* requests handed to paymentService.initiatePayment directly, which does not
\* parse them: the KES request, two non-KES amounts (one not positive) and a
\* policy id that is not a UUID
NotifyRequests ==
  { [policy_guid |-> "P1", amount |-> KesAmount, currency |-> "KES", msisdn |-> MsisdnMpesa],
    [policy_guid |-> "P1", amount |-> 7, currency |-> "UGX", msisdn |-> MsisdnMpesa],
    [policy_guid |-> "P1", amount |-> 0, currency |-> "UGX", msisdn |-> MsisdnMpesa],
    [policy_guid |-> "not-a-uuid", amount |-> KesAmount, currency |-> "KES",
     msisdn |-> MsisdnMpesa] }

NoRef == <<>>
WebhookStatuses == {"completed", "failed", "pending"}
\* mno_reference of a delivery: absent/empty (NoRef) or supplied
MnoRefs == {NoRef, <<"MNO_REF">>}

\* webhook payloads handed to handleWebhook
Webhooks ==
  { w \in [transaction_id : TxnIds, status : WebhookStatuses, mno_reference : MnoRefs] :
      w.mno_reference # NoRef <=> w.status = "completed" }

NoWebhook == [transaction_id |-> 0, status |-> "pending", mno_reference |-> NoRef]

\* an invocation slot that holds no invocation
IdleInit == [pc |-> "idle", txn |-> 0]
\* no payload has been handed to sendPaymentUpdate
NoPayload == [kind |-> "none", policy_guid |-> "", amount_in_cents |-> 0,
              mno_reference |-> NoRef]
IdleHook == [pc |-> "idle", webhook |-> NoWebhook, payload |-> NoPayload]
\* no invocation has ended yet
NoReturn == "none"
\* null returned by IdempotencyService.get
NullResponse == [processed |-> FALSE, timestamp |-> 0, status |-> "null"]

\* ---- HTTP requests ---------------------------------------------------------

\* header values are strings, written as sequences of characters; <<>> is a
\* header that is absent or empty (both are falsy)
ApiKey == <<"k">>                 \* config.api.key
OtherKey == <<"x">>
\* x-api-key and Authorization headers of a request: neither, the key or another
\* key in x-api-key, "Bearer <key>", the bare key, "Bearer <other>",
\* "Bearer  <key>" (two spaces), and another key in x-api-key beside "Bearer <key>"
ApiKeyHeaders ==
  { <<<<>>, <<>>>>, <<ApiKey, <<>>>>, <<OtherKey, <<>>>>,
    <<<<>>, <<"B", " ", "k">>>>, <<<<>>, <<"k">>>>, <<<<>>, <<"B", " ", "x">>>>,
    <<<<>>, <<"B", " ", " ", "k">>>>, <<OtherKey, <<"B", " ", "k">>>> }
InvalidSignature == "invalid_signature"
SignatureValues == {"", "sig", InvalidSignature}
WebhookIdValues == {"", "wh1"}

\* a body that fails InitiatePaymentRequestSchema: the msisdn lacks the leading 00
BadMsisdnRequest ==
  [policy_guid |-> "P1", amount |-> KesAmount, currency |-> "KES", msisdn |-> <<2,5,4,7,1>>]
InitiateBodies == Requests \cup {BadMsisdnRequest}
\* bodies of POST /webhook requests
WebhookBodies == {w \in Webhooks : w.transaction_id = 1 /\ w.status # "failed"}
NoBody == [absent |-> TRUE]
NoContext == [id |-> "", signature |-> ""]
\* body of a response that carries no record
NoRecord == [transaction_id |-> 0]

\* a request: route, the headers the middleware read, path parameter and body
HttpRequest(route, xApiKey, authorization, signature, webhookId, id, body) ==
  [route |-> route, xApiKey |-> xApiKey, authorization |-> authorization,
   signature |-> signature, webhookId |-> webhookId, id |-> id, body |-> body]

\* GET /api/payments/:transactionId
StatusRequests ==
  { HttpRequest("status", h[1], h[2], "", "", id, NoBody) :
      h \in ApiKeyHeaders, id \in TxnIds }
\* POST /api/payments/initiate
InitiateRequests ==
  { HttpRequest("initiate", h[1], h[2], "", "", 0, b) :
      h \in ApiKeyHeaders, b \in InitiateBodies }
\* POST /api/payments/webhook
WebhookRequests ==
  { HttpRequest("webhook", <<>>, <<>>, g, w, 0, b) :
      g \in SignatureValues, w \in WebhookIdValues, b \in WebhookBodies }

\* a response: the function that wrote it, status, error code, the record sent
\* and the webhookContext attached to the request
HttpResponse(by, status, code, record, context) ==
  [by |-> by, status |-> status, code |-> code, record |-> record, context |-> context]

\* no HTTP request has been answered
NoHttp ==
  [req |-> HttpRequest("none", <<>>, <<>>, "", "", 0, NoBody),
   res |-> HttpResponse("none", 0, "", NoRecord, NoContext)]

VARIABLES
  transactions,   \* PaymentService.transactions: id -> PaymentTransaction
                  \* (createdAt/updatedAt, which nothing reads, are left out)
  store,          \* IdempotencyService.store: key -> IdempotencyRecord
  accessToken,    \* AspinAuthService.accessToken: <<>> (null) or <<token>>
  tokenExpiry,    \* AspinAuthService.tokenExpiry: <<>> (null) or <<instant>>
  now,            \* new Date()
  inits,          \* initiatePayment invocations in progress: position and locals
  hooks,          \* handleWebhook invocations in progress: position and locals
  returned,       \* how the last invocation that ended returned or threw
  nextTxn,        \* transaction ids generated so far + 1
  calls,          \* handler invocations started
  notifyOk,       \* POST /api/payments answered successfully, per transaction id
  cleared,        \* clearToken has returned and getAccessToken was not called since
  http            \* the last HTTP request a middleware or getPaymentStatus answered,
                  \* with the response written

vars == <<transactions, store, accessToken, tokenExpiry, now, inits, hooks, returned,
          nextTxn, calls, notifyOk, cleared, http>>

\* ---- pure helpers --------------------------------------------------------

HasPrefix(m, p) == Len(m) >= Len(p) /\ SubSeq(m, 1, Len(p)) = p

\* mutant: without a listed prefix the channel alternates with the registry size
determineGatewayBalanced(msisdn) ==
  IF HasPrefix(msisdn, <<0,0,2,5,4>>) /\ Len(msisdn) >= 7
       /\ msisdn[6] = 7 /\ msisdn[7] \in {0, 1, 2, 9}
    THEN "mpesa"
  ELSE IF HasPrefix(msisdn, <<0,0,2,5,4>>) /\ Len(msisdn) >= 7
       /\ msisdn[6] = 7 /\ msisdn[7] \in {3, 4, 5, 7}
    THEN "airtel"
  ELSE IF nextTxn % 2 = 1 THEN "mpesa" ELSE "airtel"

\* mutant: the country default is airtel for every identifier
determineGatewayDefaultAirtel(msisdn) ==
  IF HasPrefix(msisdn, <<0,0,2,5,4>>) /\ Len(msisdn) >= 7
       /\ msisdn[6] = 7 /\ msisdn[7] \in {0, 1, 2, 9}
    THEN "mpesa"
  ELSE "airtel"

\* /^00254(7[0-2]|79)/ , /^00254(7[3-5]|77)/ , startsWith("00254")
determineGateway(msisdn) ==
  IF HasPrefix(msisdn, <<0,0,2,5,4>>) /\ Len(msisdn) >= 7
       /\ msisdn[6] = 7 /\ msisdn[7] \in {0, 1, 2, 9}
    THEN "mpesa"
  ELSE IF HasPrefix(msisdn, <<0,0,2,5,4>>) /\ Len(msisdn) >= 7
       /\ msisdn[6] = 7 /\ msisdn[7] \in {3, 4, 5, 7}
    THEN "airtel"
  ELSE IF HasPrefix(msisdn, <<0,0,2,5,4>>) THEN "mpesa" ELSE "airtel"

\* gatewayReference of the mock channels: WSR_... / AIR_... (the Date.now() suffix is left out)
GatewayReference(gateway) == IF gateway = "mpesa" THEN <<"WSR">> ELSE <<"AIR">>

\* mutant: an entry counts as expired at its expiry instant already
IsExpiredInclusive(record, t) == record.expiresAt <= t

\* record.expiresAt < new Date()
IsExpired(record, t) == record.expiresAt < t

\* IdempotencyService.get: the value returned (TRUE: a response, FALSE: null)
IdempotencyHit(key) == key \in DOMAIN store /\ ~IsExpired(store[key], now)

\* IdempotencyService.get: the value returned, record.response or null
IdempotencyGet(key) ==
  IF key \in DOMAIN store /\ ~IsExpired(store[key], now) THEN store[key].response
  ELSE NullResponse

\* mutant: get leaves an expired entry in the store
StoreAfterGetKeepsExpired(key) == store

\* IdempotencyService.get: the store it leaves (an expired entry is deleted)
StoreAfterGet(key) ==
  IF key \in DOMAIN store /\ IsExpired(store[key], now)
    THEN [k \in DOMAIN store \ {key} |-> store[k]]
    ELSE store

\* IdempotencyService.set on store st
StoreAfterSet(st, key, response) ==
  [k \in DOMAIN st \cup {key} |->
     IF k = key THEN [key |-> key, response |-> response, expiresAt |-> now + ttl]
     ELSE st[k]]

\* mutant: the sweep also removes the entries that expire at this instant
StoreAfterCleanupInclusive ==
  [k \in {j \in DOMAIN store : store[j].expiresAt > now} |-> store[k]]

\* IdempotencyService.cleanup
StoreAfterCleanup ==
  [k \in {j \in DOMAIN store : ~IsExpired(store[j], now)} |-> store[k]]

\* mutant: the transaction identifier is reported whatever the delivery carries
MnoReferenceTransactionId(webhook) == <<"TXN", webhook.transaction_id>>

\* webhook.mno_reference || webhook.transaction_id
MnoReference(webhook) ==
  IF webhook.mno_reference # NoRef THEN webhook.mno_reference
  ELSE <<"TXN", webhook.transaction_id>>

\* mutant: the amount is sent in major units
NotifyPayloadMajorUnits(webhook, transaction) ==
  [kind |-> IF webhook.status = "completed" THEN "Succeeded" ELSE "Failed",
   policy_guid |-> transaction.policyGuid,
   amount_in_cents |-> transaction.amount,
   mno_reference |-> MnoReference(webhook)]

\* mutant: every outcome is reported through notifyPaymentSuccess
NotifyPayloadAlwaysSucceeded(webhook, transaction) ==
  [kind |-> "Succeeded",
   policy_guid |-> transaction.policyGuid,
   amount_in_cents |-> transaction.amount * 100,
   mno_reference |-> MnoReference(webhook)]

\* mutant: the notification carries the amount declared in the delivery
NotifyPayloadDeclaredAmount(webhook, transaction) ==
  [kind |-> IF webhook.status = "completed" THEN "Succeeded" ELSE "Failed",
   policy_guid |-> transaction.policyGuid,
   amount_in_cents |-> webhook.amount * 100,
   mno_reference |-> MnoReference(webhook)]

\* payload built by notifyPaymentSuccess / notifyPaymentFailure
NotifyPayload(webhook, transaction) ==
  [kind |-> IF webhook.status = "completed" THEN "Succeeded" ELSE "Failed",
   policy_guid |-> transaction.policyGuid,
   amount_in_cents |-> transaction.amount * 100,
   mno_reference |-> MnoReference(webhook)]

\* access_token of a token response: an opaque string, here named by its issue time
AccessToken(t) == <<"token", t>>

\* this.accessToken && this.tokenExpiry && this.tokenExpiry > new Date()
TokenValid == accessToken # <<>> /\ tokenExpiry # <<>> /\ tokenExpiry[1] > now

\* ---- initial state -------------------------------------------------------

Init ==
  /\ transactions = <<>>
  /\ store = <<>>
  /\ accessToken = <<>>
  /\ tokenExpiry = <<>>
  /\ now = 0
  /\ inits = [i \in InitIds |-> IdleInit]
  /\ hooks = [s \in Slots |-> IdleHook]
  /\ returned = NoReturn
  /\ nextTxn = 1
  /\ calls = 0
  /\ notifyOk = [t \in TxnIds |-> 0]
  /\ cleared = FALSE
  /\ http = NoHttp

\* ---- the event loop -------------------------------------------------------

\* Every action is one turn of the event loop: a callback (a request handler, a
\* network response, a timer) together with the microtasks it queues. The
\* continuation after "await idempotencyService.get(...)" (an already resolved
\* promise) and the one after the Notifier's promise chain are microtasks: they
\* run before the next callback and belong to the turn that queued them.

\* No invocation is in progress. The network calls are bounded by timeouts of
\* seconds (axios timeout 10000 ms, paymentHub timeout 5000 ms), the clock of the
\* model advances by whole ttl periods: no call is still pending when it advances.
Quiescent ==
  /\ \A i \in InitIds : inits[i].pc = "idle"
  /\ \A s \in Slots : hooks[s].pc = "idle"

\* the invocation in slot i / s returns or throws: the slot is free again
InitReturns(i, result) ==
  /\ inits' = [inits EXCEPT ![i] = IdleInit]
  /\ returned' = result

WebhookReturns(s, result) ==
  /\ hooks' = [hooks EXCEPT ![s] = IdleHook]
  /\ returned' = result

\* ---- the clock and the hourly sweep --------------------------------------

Tick ==
  /\ Quiescent
  /\ now < MaxTicks * TickStep
  /\ now' = now + TickStep
  /\ UNCHANGED <<returned, transactions, store, accessToken, tokenExpiry, inits, hooks,
                 nextTxn, notifyOk, calls, cleared, http>>

\* setInterval(() => this.cleanup(), ...)
Cleanup ==
  /\ store' = StoreAfterCleanup
  /\ store' # store
  /\ UNCHANGED <<returned, transactions, accessToken, tokenExpiry, now, inits, hooks,
                 nextTxn, notifyOk, calls, cleared, http>>

\* ---- PaymentService.initiatePayment --------------------------------------

\* initiatePayment is called with a request: it takes the lowest free slot
InitiateCalled(i) ==
  /\ calls < MaxCalls
  /\ inits[i].pc = "idle"
  /\ \A j \in 1..(i - 1) : inits[j].pc # "idle"
  /\ calls' = calls + 1

\* mutant: the amount rule only rejects amounts above the required one
InvalidAmountAbove(request) == request.currency = "KES" /\ request.amount > KesAmount

\* request.currency === "KES" && request.amount !== 5000
InvalidAmount(request) == request.currency = "KES" /\ request.amount # KesAmount

\* validation fails: throw before anything is stored
InitiateReject(i, request) ==
  /\ InitiateCalled(i)
  /\ InvalidAmount(request)
  /\ returned' = "invalid_amount"
  /\ UNCHANGED <<transactions, store, accessToken, tokenExpiry, now, inits, hooks,
                 nextTxn, notifyOk, cleared, http>>

\* mutant: the channel call is dispatched before the record is stored
InitiateStoreDispatchFirst(i, request) ==
  /\ InitiateCalled(i)
  /\ ~InvalidAmount(request)
  /\ inits' = [inits EXCEPT ![i] = [pc |-> "gateway", txn |-> nextTxn]]
  /\ nextTxn' = nextTxn + 1
  /\ UNCHANGED <<transactions, returned, store, accessToken, tokenExpiry, now, hooks,
                 notifyOk, cleared, http>>

\* the record is stored, then the channel call is dispatched (await)
InitiateStore(i, request) ==
  /\ InitiateCalled(i)
  /\ ~InvalidAmount(request)
  /\ transactions' =
       [t \in DOMAIN transactions \cup {nextTxn} |->
          IF t = nextTxn
            THEN [transactionId |-> nextTxn,
                  policyGuid |-> request.policy_guid,
                  amount |-> request.amount,
                  currency |-> request.currency,
                  msisdn |-> request.msisdn,
                  status |-> "pending",
                  gateway |-> determineGateway(request.msisdn),
                  gatewayReference |-> NoRef]
            ELSE transactions[t]]
  /\ inits' = [inits EXCEPT ![i] = [pc |-> "gateway", txn |-> nextTxn]]
  /\ nextTxn' = nextTxn + 1
  /\ UNCHANGED <<returned, store, accessToken, tokenExpiry, now, hooks, notifyOk,
                 cleared, http>>

\* one call of initiatePayment, up to its throw or its await of the channel
initiatePayment(i, request) ==
  /\ InitiateCalled(i)
  /\ \/ InitiateReject(i, request)
     \/ InitiateStore(i, request)

\* the channel answers: gatewayReference and status "pending" are written
InitiateGatewayReturn(i) ==
  /\ inits[i].pc = "gateway"
  /\ LET id == inits[i].txn
         gatewayResult == [gatewayReference |-> GatewayReference(transactions[id].gateway),
                           status |-> "pending"]
     IN /\ transactions' = [transactions EXCEPT
                              ![id].gatewayReference = gatewayResult.gatewayReference,
                              ![id].status = gatewayResult.status]
        /\ InitReturns(i, gatewayResult.status)
  /\ UNCHANGED <<store, accessToken, tokenExpiry, now, hooks, nextTxn, notifyOk, calls,
                 cleared, http>>

\* mutant: the channel error is swallowed and initiatePayment returns normally
InitiateGatewayFailSwallowed(i) ==
  /\ inits[i].pc = "gateway"
  /\ InitReturns(i, transactions[inits[i].txn].status)
  /\ UNCHANGED <<transactions, store, accessToken, tokenExpiry, now, hooks, nextTxn,
                 notifyOk, calls, cleared, http>>

\* the channel times out: "PaymentHub timeout" is rethrown
InitiateGatewayFail(i) ==
  /\ inits[i].pc = "gateway"
  /\ InitReturns(i, "gateway_error")
  /\ UNCHANGED <<transactions, store, accessToken, tokenExpiry, now, hooks, nextTxn,
                 notifyOk, calls, cleared, http>>

\* ---- PaymentService.handleWebhook -----------------------------------------

\* mutant: the delivery's reference is written over the channel reference
UpdatedTransactionWithReference(transaction, webhook) ==
  [transaction EXCEPT !.status = webhook.status,
                      !.gatewayReference = MnoReference(webhook)]

\* transaction.status = webhook.status
UpdatedTransaction(transaction, webhook) ==
  [transaction EXCEPT !.status = webhook.status]

\* response stored in the ledger for a processed delivery
LedgerResponse(webhook) == [processed |-> TRUE, timestamp |-> now, status |-> webhook.status]

\* z.string().uuid(): the policy ids of the model that are UUIDs
IsUuid(guid) == guid \in {"P1"}

\* mutant: the schema does not constrain the amount
PayloadValidPolicyOnly(payload) == IsUuid(payload.policy_guid)

\* AspinPaymentUpdateSchema.parse(payload): policy_guid a UUID, amount_in_cents a
\* positive integer (status, channel and effected_at are valid by construction)
PayloadValid(payload) == IsUuid(payload.policy_guid) /\ payload.amount_in_cents > 0

\* handleWebhook is called with a delivery: it takes the lowest free slot. The
\* delivery names a transaction id already issued or, for an unknown one, the
\* next id to be issued.
WebhookCalled(s, webhook) ==
  /\ calls < MaxCalls
  /\ hooks[s].pc = "idle"
  /\ \A r \in 1..(s - 1) : hooks[r].pc # "idle"
  /\ webhook.transaction_id <= nextTxn
  /\ calls' = calls + 1

\* existing = await idempotencyService.get(...); if (existing) return
\* (a normal return; "duplicate" names the path taken)
WebhookDuplicate(s, webhook) ==
  /\ WebhookCalled(s, webhook)
  /\ IdempotencyHit(webhook.transaction_id)
  /\ store' = StoreAfterGet(webhook.transaction_id)
  /\ WebhookReturns(s, "duplicate")
  /\ UNCHANGED <<transactions, accessToken, tokenExpiry, now, inits, nextTxn, notifyOk,
                 cleared, http>>

\* mutant: the missing record is not reported; the delivery is acknowledged and
\* recorded in the ledger
WebhookUnknownAcknowledged(s, webhook) ==
  /\ WebhookCalled(s, webhook)
  /\ ~IdempotencyHit(webhook.transaction_id)
  /\ webhook.transaction_id \notin DOMAIN transactions
  /\ store' = StoreAfterSet(StoreAfterGet(webhook.transaction_id), webhook.transaction_id,
                            LedgerResponse(webhook))
  /\ WebhookReturns(s, "ok")
  /\ UNCHANGED <<transactions, accessToken, tokenExpiry, now, inits, nextTxn, notifyOk,
                 cleared, http>>

\* if (!transaction) throw new Error("Transaction not found: ...")
WebhookUnknown(s, webhook) ==
  /\ WebhookCalled(s, webhook)
  /\ ~IdempotencyHit(webhook.transaction_id)
  /\ webhook.transaction_id \notin DOMAIN transactions
  /\ store' = StoreAfterGet(webhook.transaction_id)
  /\ WebhookReturns(s, "not_found")
  /\ UNCHANGED <<transactions, accessToken, tokenExpiry, now, inits, nextTxn, notifyOk,
                 cleared, http>>

\* status "pending": the status is written, no notification, the ledger entry is stored
WebhookPending(s, webhook) ==
  /\ WebhookCalled(s, webhook)
  /\ ~IdempotencyHit(webhook.transaction_id)
  /\ webhook.transaction_id \in DOMAIN transactions
  /\ webhook.status = "pending"
  /\ LET id == webhook.transaction_id
     IN /\ transactions' = [transactions EXCEPT ![id] = UpdatedTransaction(@, webhook)]
        /\ store' = StoreAfterSet(StoreAfterGet(id), id, LedgerResponse(webhook))
        /\ WebhookReturns(s, "ok")
  /\ UNCHANGED <<accessToken, tokenExpiry, now, inits, nextTxn, notifyOk, cleared, http>>

\* mutant: the ledger entry is stored before the Notifier is invoked
WebhookNotifyLedgerFirst(s, webhook) ==
  /\ WebhookCalled(s, webhook)
  /\ ~IdempotencyHit(webhook.transaction_id)
  /\ webhook.transaction_id \in DOMAIN transactions
  /\ webhook.status \in {"completed", "failed"}
  /\ LET id == webhook.transaction_id
         payload == NotifyPayload(webhook, transactions[id])
     IN /\ transactions' = [transactions EXCEPT ![id] = UpdatedTransaction(@, webhook)]
        /\ store' = StoreAfterSet(StoreAfterGet(id), id, LedgerResponse(webhook))
        /\ hooks' = [hooks EXCEPT ![s] =
                       [pc |-> IF TokenValid THEN "postWait" ELSE "authWait",
                        webhook |-> webhook,
                        payload |-> payload]]
        /\ cleared' = FALSE
        /\ UNCHANGED returned
  /\ UNCHANGED <<accessToken, tokenExpiry, now, inits, nextTxn, notifyOk, http>>

\* status "completed"/"failed": the status is written and the Notifier is invoked;
\* sendPaymentUpdate calls getAccessToken, which returns the cached token (and
\* POST /api/payments is issued, await) or calls authenticate (POST /oauth/token
\* is issued, await).
WebhookNotify(s, webhook) ==
  /\ WebhookCalled(s, webhook)
  /\ ~IdempotencyHit(webhook.transaction_id)
  /\ webhook.transaction_id \in DOMAIN transactions
  /\ webhook.status \in {"completed", "failed"}
  /\ LET id == webhook.transaction_id
         payload == NotifyPayload(webhook, transactions[id])
     IN /\ transactions' = [transactions EXCEPT ![id] = UpdatedTransaction(@, webhook)]
        /\ store' = StoreAfterGet(id)
        /\ IF ~PayloadValid(payload)
             THEN WebhookReturns(s, "notify_error") /\ UNCHANGED cleared
             ELSE /\ hooks' = [hooks EXCEPT ![s] =
                                 [pc |-> IF TokenValid THEN "postWait" ELSE "authWait",
                                  webhook |-> webhook,
                                  payload |-> payload]]
                  /\ cleared' = FALSE
                  /\ UNCHANGED returned
  /\ UNCHANGED <<accessToken, tokenExpiry, now, inits, nextTxn, notifyOk, http>>

\* one call of handleWebhook, up to its return or its first network await
handleWebhook(s, webhook) ==
  /\ WebhookCalled(s, webhook)
  /\ \/ WebhookDuplicate(s, webhook)
     \/ WebhookUnknown(s, webhook)
     \/ WebhookPending(s, webhook)
     \/ WebhookNotify(s, webhook)

\* ---- AspinAuthService.authenticate: the token response arrives -------------

\* mutant: the token is cached, the expiry of the response is not
AuthOkTokenOnly(s) ==
  /\ hooks[s].pc = "authWait"
  /\ accessToken' = <<AccessToken(now)>>
  /\ hooks' = [hooks EXCEPT ![s].pc = "postWait"]
  /\ UNCHANGED <<returned, transactions, store, tokenExpiry, now, inits, nextTxn, calls,
                 notifyOk, cleared, http>>

\* this.accessToken = access_token; this.tokenExpiry = now + expires_in - 60;
\* the token is returned to sendPaymentUpdate, which issues POST /api/payments (await)
AuthOk(s) ==
  /\ hooks[s].pc = "authWait"
  /\ \E expires_in \in ExpiresInValues :
       /\ accessToken' = <<AccessToken(now)>>
       /\ tokenExpiry' = <<now + expires_in - TokenBuffer>>
  /\ hooks' = [hooks EXCEPT ![s].pc = "postWait"]
  /\ UNCHANGED <<returned, transactions, store, now, inits, nextTxn, calls, notifyOk,
                 cleared, http>>

\* mutant: the authentication error is ignored and the POST is issued anyway
AuthFailPostsAnyway(s) ==
  /\ hooks[s].pc = "authWait"
  /\ hooks' = [hooks EXCEPT ![s].pc = "postWait"]
  /\ UNCHANGED <<returned, transactions, store, accessToken, tokenExpiry, now, inits,
                 nextTxn, notifyOk, calls, cleared, http>>

\* mutant: a failed authentication drops the cached credential
AuthFailClearsToken(s) ==
  /\ hooks[s].pc = "authWait"
  /\ accessToken' = <<>>
  /\ tokenExpiry' = <<>>
  /\ WebhookReturns(s, "notify_error")
  /\ UNCHANGED <<transactions, store, now, inits, nextTxn, notifyOk, calls, cleared, http>>

\* throw new Error("Failed to authenticate with ASPIn"), rethrown by
\* sendPaymentUpdate as "Failed to notify ASPIn of payment status"
AuthFail(s) ==
  /\ hooks[s].pc = "authWait"
  /\ WebhookReturns(s, "notify_error")
  /\ UNCHANGED <<transactions, store, accessToken, tokenExpiry, now, inits, nextTxn,
                 notifyOk, calls, cleared, http>>

\* ---- AspinAuthService.clearToken ------------------------------------------

\* this.accessToken = null; this.tokenExpiry = null
ClearToken ==
  /\ accessToken' = <<>>
  /\ tokenExpiry' = <<>>
  /\ cleared' = TRUE
  /\ UNCHANGED <<returned, transactions, store, now, inits, hooks, nextTxn, notifyOk,
                 calls, http>>

\* ---- AspinPaymentService.sendPaymentUpdate ---------------------------------

\* the settlement endpoint answers 2xx: the Notifier call returns; back in
\* handleWebhook: idempotencyService.set(transaction_id, ...), then return
PostOk(s) ==
  /\ hooks[s].pc = "postWait"
  /\ notifyOk' = [notifyOk EXCEPT ![hooks[s].webhook.transaction_id] = @ + 1]
  /\ store' = StoreAfterSet(store, hooks[s].webhook.transaction_id,
                            LedgerResponse(hooks[s].webhook))
  /\ WebhookReturns(s, "ok")
  /\ UNCHANGED <<transactions, accessToken, tokenExpiry, now, inits, nextTxn, calls,
                 cleared, http>>

\* mutant: after a failed POST the Notifier authenticates and sends again
PostFailRetries(s) ==
  /\ hooks[s].pc = "postWait"
  /\ hooks' = [hooks EXCEPT ![s].pc = "authWait"]
  /\ UNCHANGED <<returned, transactions, store, accessToken, tokenExpiry, now, inits,
                 nextTxn, notifyOk, calls, cleared, http>>

\* the POST fails: throw new Error("Failed to notify ASPIn of payment status")
PostFail(s) ==
  /\ hooks[s].pc = "postWait"
  /\ WebhookReturns(s, "notify_error")
  /\ UNCHANGED <<transactions, store, accessToken, tokenExpiry, now, inits, nextTxn,
                 notifyOk, calls, cleared, http>>

\* ---- middleware and PaymentController ---------------------------------------

\* header.split(" ")[1]: the characters between the first space and the next
\* one; <<>> when there is no space (undefined) or nothing between (empty)
SecondToken(header) ==
  LET spaces == {p \in 1..Len(header) : header[p] = " "}
  IN IF spaces = {} THEN <<>>
     ELSE LET first == CHOOSE p \in spaces : \A q \in spaces : p <= q
              later == {p \in spaces : p > first}
              stop == IF later = {} THEN Len(header) + 1
                      ELSE CHOOSE p \in later : \A q \in later : p <= q
          IN SubSeq(header, first + 1, stop - 1)

\* req.headers["x-api-key"] || req.headers.authorization?.split(" ")[1]
RequestApiKey(req) ==
  IF req.xApiKey # <<>> THEN req.xApiKey ELSE SecondToken(req.authorization)

\* mutant: any key that is present is accepted
authenticateApiKeyAnyKey(req) ==
  IF RequestApiKey(req) = <<>>
    THEN HttpResponse("authenticateApiKey", 401, "UNAUTHORIZED", NoRecord, NoContext)
  ELSE HttpResponse("next", 0, "", NoRecord, NoContext)

\* authenticateApiKey: the response it writes, or "next"
authenticateApiKey(req) ==
  IF RequestApiKey(req) = <<>>
    THEN HttpResponse("authenticateApiKey", 401, "UNAUTHORIZED", NoRecord, NoContext)
  ELSE IF RequestApiKey(req) # ApiKey
    THEN HttpResponse("authenticateApiKey", 401, "UNAUTHORIZED", NoRecord, NoContext)
  ELSE HttpResponse("next", 0, "", NoRecord, NoContext)

\* mutant: a rejected signature is let through
validateWebhookSignatureLenient(req) ==
  IF req.signature = "" \/ req.webhookId = ""
    THEN HttpResponse("validateWebhookSignature", 401, "UNAUTHORIZED", NoRecord, NoContext)
  ELSE HttpResponse("next", 0, "", NoRecord,
                    [id |-> req.webhookId, signature |-> req.signature])

\* validateWebhookSignature: the response it writes, or "next" with
\* req.webhookContext set
validateWebhookSignature(req) ==
  IF req.signature = "" \/ req.webhookId = ""
    THEN HttpResponse("validateWebhookSignature", 401, "UNAUTHORIZED", NoRecord, NoContext)
  ELSE IF req.signature = InvalidSignature
    THEN HttpResponse("validateWebhookSignature", 400, "INVALID_SIGNATURE", NoRecord,
                      NoContext)
  ELSE HttpResponse("next", 0, "", NoRecord,
                    [id |-> req.webhookId, signature |-> req.signature])

\* /^00[1-9]\d{6,14}$/
MsisdnValid(msisdn) ==
  /\ Len(msisdn) >= 9 /\ Len(msisdn) <= 17
  /\ msisdn[1] = 0 /\ msisdn[2] = 0 /\ msisdn[3] \in 1..9
  /\ \A p \in 4..Len(msisdn) : msisdn[p] \in 0..9

\* InitiatePaymentRequestSchema.parse(input): the required keys are read from
\* input itself (policy ids of the model are UUIDs)
InitiatePaymentRequestSchema(input) ==
  /\ {"policy_guid", "amount", "currency", "msisdn"} \subseteq DOMAIN input
  /\ input.amount > 0
  /\ input.currency \in {"KES", "UGX", "RWF", "ZMW", "ZAR"}
  /\ MsisdnValid(input.msisdn)

\* PaymentHubWebhookSchema.parse(input) (amount, currency and timestamp, which
\* handleWebhook does not read, are left out of the model's deliveries)
PaymentHubWebhookSchema(input) ==
  /\ {"transaction_id", "status"} \subseteq DOMAIN input
  /\ input.status \in WebhookStatuses

\* schema.parseAsync(input) for the two schemas the routes use: TRUE when it
\* resolves, FALSE when it throws a ZodError
SchemaParse(schema, input) ==
  IF schema = "InitiatePaymentRequestSchema" THEN InitiatePaymentRequestSchema(input)
  ELSE PaymentHubWebhookSchema(input)

\* the object validate hands to the schema
ValidateInput(req) == [body |-> req.body, query |-> <<>>, params |-> <<>>]

\* validate(schema): schema.parseAsync({body, query, params}); a ZodError is
\* answered 400 VALIDATION_ERROR
validate(schema, req) ==
  IF SchemaParse(schema, ValidateInput(req))
    THEN HttpResponse("next", 0, "", NoRecord, NoContext)
  ELSE HttpResponse("validate", 400, "VALIDATION_ERROR", NoRecord, NoContext)

\* PaymentService.getTransaction: the record or undefined
NoTransaction == [transactionId |-> 0]
getTransaction(transactionId) ==
  IF transactionId \in DOMAIN transactions THEN transactions[transactionId]
  ELSE NoTransaction

\* mutant: an unknown id is answered 200 with an empty record
getPaymentStatusAlwaysOk(req) ==
  LET transaction == getTransaction(req.id)
  IN HttpResponse("getPaymentStatus", 200, "",
                  [transaction_id |-> transaction.transactionId], NoContext)

\* PaymentController.getPaymentStatus: the response it writes
getPaymentStatus(req) ==
  LET transaction == getTransaction(req.id)
  IN IF req.id = 0
       THEN HttpResponse("getPaymentStatus", 400, "INVALID_PARAMETER", NoRecord, NoContext)
     ELSE IF transaction = NoTransaction
       THEN HttpResponse("getPaymentStatus", 404, "NOT_FOUND", NoRecord, NoContext)
     ELSE HttpResponse("getPaymentStatus", 200, "",
                       [transaction_id |-> transaction.transactionId,
                        policy_guid |-> transaction.policyGuid,
                        status |-> transaction.status,
                        amount |-> transaction.amount,
                        currency |-> transaction.currency,
                        gateway |-> transaction.gateway,
                        gateway_reference |-> transaction.gatewayReference],
                       NoContext)

\* a middleware or getPaymentStatus answers the request: nothing else changes
HttpAnswers(req, res) ==
  /\ calls < MaxCalls
  /\ calls' = calls + 1
  /\ http' = [req |-> req, res |-> res]
  /\ UNCHANGED <<transactions, store, accessToken, tokenExpiry, now, inits, hooks,
                 returned, nextTxn, notifyOk, cleared>>

\* router.get("/:transactionId", authenticateApiKey, getPaymentStatus)
HttpStatus(req) ==
  IF authenticateApiKey(req).by # "next"
    THEN HttpAnswers(req, authenticateApiKey(req))
  ELSE HttpAnswers(req, getPaymentStatus(req))

\* router.post("/initiate", authenticateApiKey, validate(InitiatePaymentRequestSchema),
\* initiatePayment): the controller parses req.body and calls
\* paymentService.initiatePayment
HttpInitiate(req) ==
  IF authenticateApiKey(req).by # "next"
    THEN HttpAnswers(req, authenticateApiKey(req))
  ELSE IF validate("InitiatePaymentRequestSchema", req).by # "next"
    THEN HttpAnswers(req, validate("InitiatePaymentRequestSchema", req))
  ELSE IF ~InitiatePaymentRequestSchema(req.body)
    THEN HttpAnswers(req, HttpResponse("errorHandler", 500, "INTERNAL_SERVER_ERROR",
                                       NoRecord, NoContext))
  ELSE \E i \in InitIds : initiatePayment(i, req.body)

\* router.post("/webhook", validateWebhookSignature, validate(PaymentHubWebhookSchema),
\* handleWebhook): the controller parses req.body and calls
\* paymentService.handleWebhook
HttpWebhook(req) ==
  IF validateWebhookSignature(req).by # "next"
    THEN HttpAnswers(req, validateWebhookSignature(req))
  ELSE IF validate("PaymentHubWebhookSchema", req).by # "next"
    THEN HttpAnswers(req, [validate("PaymentHubWebhookSchema", req) EXCEPT
                             !.context = validateWebhookSignature(req).context])
  ELSE IF ~PaymentHubWebhookSchema(req.body)
    THEN HttpAnswers(req, HttpResponse("errorHandler", 500, "INTERNAL_SERVER_ERROR",
                                       NoRecord, validateWebhookSignature(req).context))
  ELSE \E s \in Slots : handleWebhook(s, req.body)

\* ---- specification -------------------------------------------------------

Next ==
  \/ Tick
  \/ Cleanup
  \/ \E i \in InitIds, request \in Requests : InitiateReject(i, request)
  \/ \E i \in InitIds, request \in Requests : InitiateStore(i, request)
  \/ \E i \in InitIds : InitiateGatewayReturn(i)
  \/ \E i \in InitIds : InitiateGatewayFail(i)
  \/ \E s \in Slots, webhook \in Webhooks : WebhookDuplicate(s, webhook)
  \/ \E s \in Slots, webhook \in Webhooks : WebhookUnknown(s, webhook)
  \/ \E s \in Slots, webhook \in Webhooks : WebhookPending(s, webhook)
  \/ \E s \in Slots, webhook \in Webhooks : WebhookNotify(s, webhook)
  \/ \E s \in Slots : AuthOk(s)
  \/ \E s \in Slots : AuthFail(s)
  \/ \E s \in Slots : PostOk(s)
  \/ \E s \in Slots : PostFail(s)

Spec == Init /\ [][Next]_vars

\* the service with a caller of clearToken (the repository has none)
NextClear == Next \/ ClearToken

SpecClear == Init /\ [][NextClear]_vars

\* initiatePayment exercised over the routing identifiers
InitiateRouted(i, request) ==
  /\ nextTxn <= MaxRouted
  /\ InitiateStore(i, request)

NextRouting ==
  \/ \E i \in InitIds, request \in RoutingRequests : InitiateRouted(i, request)
  \/ \E i \in InitIds, request \in Requests : InitiateReject(i, request)
  \/ \E i \in InitIds : InitiateGatewayReturn(i)
  \/ \E i \in InitIds : InitiateGatewayFail(i)

SpecRouting == Init /\ [][NextRouting]_vars

\* the Notifier exercised over records of several amounts and policy ids
NextNotify ==
  \/ \E i \in InitIds, request \in NotifyRequests : InitiateRouted(i, request)
  \/ \E i \in InitIds : InitiateGatewayReturn(i)
  \/ \E s \in Slots, webhook \in Webhooks : WebhookNotify(s, webhook)
  \/ \E s \in Slots : AuthOk(s)
  \/ \E s \in Slots : AuthFail(s)
  \/ \E s \in Slots : PostOk(s)
  \/ \E s \in Slots : PostFail(s)

SpecNotify == Init /\ [][NextNotify]_vars

\* amount: z.number().positive().int() and currency: z.enum([...]) of a delivery:
\* the amount and currency of the records of the model, and others
DeclaredAmounts == {KesAmount, 1}
DeclaredCurrencies == {"KES", "UGX"}

\* deliveries with the amount and the currency PaymentHub declares
DeclaredWebhooks ==
  { w \in [transaction_id : TxnIds, status : WebhookStatuses, mno_reference : MnoRefs,
           amount : DeclaredAmounts, currency : DeclaredCurrencies] :
      w.mno_reference # NoRef <=> w.status = "completed" }

\* the delivery with the same id, status and reference that declares the
\* amount and the currency of the stored record
MatchingWebhook(webhook, transaction) ==
  [webhook EXCEPT !.amount = transaction.amount, !.currency = transaction.currency]

\* initiations and deliveries that declare an amount and a currency
NextDeclared ==
  \/ \E i \in InitIds, request \in Requests : InitiateRouted(i, request)
  \/ \E i \in InitIds : InitiateGatewayReturn(i)
  \/ \E s \in Slots, webhook \in DeclaredWebhooks : WebhookDuplicate(s, webhook)
  \/ \E s \in Slots, webhook \in DeclaredWebhooks : WebhookPending(s, webhook)
  \/ \E s \in Slots, webhook \in DeclaredWebhooks : WebhookNotify(s, webhook)
  \/ \E s \in Slots : AuthOk(s)
  \/ \E s \in Slots : AuthFail(s)
  \/ \E s \in Slots : PostOk(s)
  \/ \E s \in Slots : PostFail(s)

SpecDeclared == Init /\ [][NextDeclared]_vars

\* the deliveries PaymentHub repeats: payment completed, for each transaction
RedeliveryWebhooks == {w \in Webhooks : w.status = "completed"}

\* PaymentHub delivers without limit: once the invocations counted have ended,
\* the count of handler invocations starts again
LiftCallBound ==
  /\ calls = MaxCalls
  /\ Quiescent
  /\ calls' = 0
  /\ UNCHANGED <<transactions, store, accessToken, tokenExpiry, now, inits, hooks,
                 returned, nextTxn, notifyOk, cleared, http>>

\* the payment whose completion PaymentHub redelivers is initiated
InitiateRedelivered(i, request) ==
  /\ nextTxn = 1
  /\ InitiateStore(i, request)

\* one initiation, and completed deliveries repeated by PaymentHub
NextRedelivery ==
  \/ \E i \in InitIds, request \in Requests : InitiateRedelivered(i, request)
  \/ \E i \in InitIds : InitiateGatewayReturn(i)
  \/ \E i \in InitIds : InitiateGatewayFail(i)
  \/ \E s \in Slots, webhook \in RedeliveryWebhooks : WebhookDuplicate(s, webhook)
  \/ \E s \in Slots, webhook \in RedeliveryWebhooks : WebhookNotify(s, webhook)
  \/ \E s \in Slots : AuthOk(s)
  \/ \E s \in Slots : AuthFail(s)
  \/ \E s \in Slots : PostOk(s)
  \/ \E s \in Slots : PostFail(s)
  \/ LiftCallBound

\* PaymentHub keeps redelivering an event that is not acknowledged, every
\* network call is answered, and ASPIn does not fail for ever: a token request
\* and a POST that are repeated without end eventually succeed
FairRedelivery ==
  /\ \A webhook \in RedeliveryWebhooks :
       SF_vars(\E s \in Slots : WebhookNotify(s, webhook))
  /\ SF_vars(\E s \in Slots : AuthOk(s))
  /\ SF_vars(\E s \in Slots : PostOk(s))
  /\ WF_vars(\E i \in InitIds : InitiateGatewayReturn(i) \/ InitiateGatewayFail(i))
  /\ WF_vars(LiftCallBound)

SpecRedelivery == Init /\ [][NextRedelivery]_vars /\ FairRedelivery

\* the HTTP routes, beside direct calls of the service that fill the registry
\* and the ledger: initiations, and deliveries that return in their first turn
NextHttp ==
  \/ \E i \in InitIds, request \in Requests : InitiateReject(i, request)
  \/ \E i \in InitIds, request \in Requests : InitiateStore(i, request)
  \/ \E i \in InitIds : InitiateGatewayReturn(i)
  \/ \E i \in InitIds : InitiateGatewayFail(i)
  \/ \E s \in Slots, webhook \in Webhooks : WebhookDuplicate(s, webhook)
  \/ \E s \in Slots, webhook \in Webhooks : WebhookUnknown(s, webhook)
  \/ \E s \in Slots, webhook \in Webhooks : WebhookPending(s, webhook)
  \/ \E req \in StatusRequests : HttpStatus(req)
  \/ \E req \in InitiateRequests : HttpInitiate(req)
  \/ \E req \in WebhookRequests : HttpWebhook(req)

SpecHttp == Init /\ [][NextHttp]_vars

\* ---- properties ----------------------------------------------------------

TerminalStatuses == {"completed", "failed"}

\* a handleWebhook invocation that has written the status, is inside its
\* Notifier call and has not yet returned
InNotifier(s) == hooks[s].pc \in {"authWait", "postWait"}

\* Notifier invocations for key k that are in flight
NotifierInFlight(k) ==
  Cardinality({s \in Slots : InNotifier(s) /\ hooks[s].webhook.transaction_id = k})

\* this step issues POST /oauth/token
AuthenticationRequested ==
  \E s \in Slots : hooks[s].pc # "authWait" /\ hooks'[s].pc = "authWait"

\* this step is the call of a handler
HandlerCalled == calls' # calls

\* this step invokes the Notifier (notifyPaymentSuccess/Failure) for transaction
\* k: an invocation enters the Notifier's network calls, or the Notifier throws
\* at once on its payload
NotifierInvoked(k) ==
  \/ \E s \in Slots :
       /\ hooks[s].pc = "idle"
       /\ hooks'[s].pc \in {"authWait", "postWait"}
       /\ hooks'[s].webhook.transaction_id = k
  \/ /\ HandlerCalled
     /\ returned' = "notify_error"
     /\ \E s \in Slots, webhook \in Webhooks :
          webhook.transaction_id = k /\ WebhookNotify(s, webhook)

\* this step belongs to a handleWebhook invocation
WebhookStep ==
  \/ hooks' # hooks
  \/ HandlerCalled /\ \E s \in Slots, webhook \in Webhooks : handleWebhook(s, webhook)

\* position of a status in the lifecycle pending < processing < {completed, failed}
StatusRank(status) ==
  IF status = "pending" THEN 0 ELSE IF status = "processing" THEN 1 ELSE 2

\* the ledger holds an entry for key k whose expiry instant has not passed
UnexpiredEntry(k) == k \in DOMAIN store /\ store[k].expiresAt >= now

\* C1: deliveries carrying the same event key cause one Notifier invocation in
\* total, whatever their interleaving: for every key, the Notifier invocations
\* that succeeded or are still in flight number at most one.
C1_OneNotifierInvocationPerKey ==
  \A k \in TxnIds : notifyOk[k] + NotifierInFlight(k) <= 1

\* C2: of two concurrent deliveries for one transaction, one completed and one
\* failed, only one performs the state transition and invokes the Notifier: two
\* such deliveries are never both past the status write at the same time.
C2_SingleTransitionWinner ==
  \A s1, s2 \in Slots :
    (/\ s1 # s2
     /\ hooks[s1].webhook.transaction_id = hooks[s2].webhook.transaction_id
     /\ hooks[s1].webhook.status = "completed"
     /\ hooks[s2].webhook.status = "failed")
    => ~(InNotifier(s1) /\ InNotifier(s2))

\* C3: once a record is completed or failed, no step of a handleWebhook delivery
\* changes its status.
C3_TerminalStatusIsFinal ==
  [][\A k \in DOMAIN transactions :
       (transactions[k].status \in TerminalStatuses /\ WebhookStep)
       => transactions'[k].status = transactions[k].status]_vars

\* C4: no step of initiatePayment moves a record's status back in the order
\* pending < processing < {completed, failed}.
C4_InitiateNeverMovesStatusBack ==
  [][\A k \in DOMAIN transactions :
       (inits' # inits)
       => StatusRank(transactions'[k].status) >= StatusRank(transactions[k].status)]_vars

\* C5: the ledger is not the only guard: once the Notifier has succeeded for a
\* transaction and the ledger entry of that delivery has expired or been swept,
\* no later delivery invokes the Notifier for the transaction again.
C5_NoSecondNotificationAfterExpiry ==
  [][\A k \in TxnIds :
       (notifyOk[k] >= 1 /\ ~UnexpiredEntry(k)) => ~NotifierInvoked(k)]_vars

\* C6: getAccessToken calls that overlap while no valid token is cached share one
\* re-authentication request: at most one POST /oauth/token is in flight.
C6_SingleFlightAuthentication ==
  Cardinality({s \in Slots : hooks[s].pc = "authWait"}) <= 1

\* C7: a ledger entry for key k exists only if a Notifier invocation made while
\* processing k has succeeded.
C7_LedgerEntryOnlyAfterNotification ==
  \A k \in DOMAIN store : notifyOk[k] >= 1

\* C8: a delivery with outcome pending for a known transaction (and no ledger
\* hit) returns without error, changes no record's status and does not invoke
\* the Notifier.
C8_PendingDeliveryIsNoOp ==
  [][HandlerCalled =>
       \A webhook \in Webhooks :
         (/\ webhook.status = "pending"
          /\ webhook.transaction_id \in DOMAIN transactions
          /\ ~IdempotencyHit(webhook.transaction_id))
         => \A s \in Slots :
              handleWebhook(s, webhook)
              => /\ hooks' = hooks /\ returned' = "ok"
                 /\ \A k \in DOMAIN transactions :
                      transactions'[k].status = transactions[k].status
                 /\ \A k \in TxnIds : ~NotifierInvoked(k)]_vars

\* C9: a delivery whose key has an unexpired ledger entry when handleWebhook
\* reads the ledger is a duplicate: it returns without error, with the registry,
\* the ledger and the Notifier untouched and no request sent.
C9_DuplicateDeliveryIsNoOp ==
  [][HandlerCalled =>
       \A webhook \in Webhooks :
         UnexpiredEntry(webhook.transaction_id)
         => \A s \in Slots :
              handleWebhook(s, webhook)
              => (/\ hooks' = hooks
                  /\ returned' = "duplicate"
                  /\ transactions' = transactions
                  /\ store' = store
                  /\ notifyOk' = notifyOk
                  /\ \A k \in TxnIds : ~NotifierInvoked(k)
                  /\ ~AuthenticationRequested)]_vars

\* C9 witness: a delivery found its key in the ledger and has returned
C9_Witness == returned = "duplicate"

\* C10: a delivery whose transaction is not in the registry when handleWebhook
\* looks it up fails with "Transaction not found"; no record is created or
\* modified, the Notifier is not invoked and the ledger is not written.
C10_UnknownTransactionRejected ==
  [][HandlerCalled =>
       \A webhook \in Webhooks :
         webhook.transaction_id \notin DOMAIN transactions
         => \A s \in Slots :
              handleWebhook(s, webhook)
              => (/\ hooks' = hooks
                  /\ returned' = "not_found"
                  /\ transactions' = transactions
                  /\ store' = store
                  /\ notifyOk' = notifyOk
                  /\ \A k \in TxnIds : ~NotifierInvoked(k)
                  /\ ~AuthenticationRequested)]_vars

\* C10 witness: a delivery for an unknown transaction has been rejected
C10_Witness == returned = "not_found"

\* C11: an initiatePayment request with currency KES and an amount other than
\* 5000 is rejected with the invalid-amount error before any state change: no
\* record is created and no channel call is dispatched.
C11_InvalidAmountRejected ==
  [][HandlerCalled =>
       \A request \in Requests :
         (request.currency = "KES" /\ request.amount # 5000)
         => \A i \in InitIds :
              initiatePayment(i, request)
              => (/\ returned' = "invalid_amount"
                  /\ transactions' = transactions
                  /\ nextTxn' = nextTxn
                  /\ inits' = inits
                  /\ store' = store
                  /\ hooks' = hooks)]_vars

\* C11 witness: a request has been rejected for its amount
C11_Witness == returned = "invalid_amount"

C13_ProcessingAfterChannelAssignment ==
  [][\A i \in InitIds :
       (/\ inits[i].pc = "gateway"
        /\ inits'[i].pc = "idle"
        /\ returned' # "gateway_error")
       => (/\ transactions'[inits[i].txn].status = "processing"
           /\ transactions'[inits[i].txn].gatewayReference # NoRef)]_vars

\* C14: no step changes the transactionId, policyGuid, amount or currency of a
\* stored record, and a channel reference that is set never changes.
C14_RecordFieldsImmutable ==
  [][\A k \in DOMAIN transactions :
       /\ k \in DOMAIN transactions'
       /\ transactions'[k].transactionId = transactions[k].transactionId
       /\ transactions'[k].policyGuid = transactions[k].policyGuid
       /\ transactions'[k].amount = transactions[k].amount
       /\ transactions'[k].currency = transactions[k].currency
       /\ transactions[k].gatewayReference # NoRef
            => transactions'[k].gatewayReference = transactions[k].gatewayReference]_vars

\* C14 witness: a record whose channel reference is set has been written by a
\* webhook delivery
C14_Witness ==
  \E k \in DOMAIN transactions :
    /\ transactions[k].gatewayReference # NoRef
    /\ transactions[k].status \in TerminalStatuses

\* this step returns a token from getAccessToken to the invocation in slot s
\* (which then issues POST /api/payments)
TokenReturned(s) == hooks[s].pc # "postWait" /\ hooks'[s].pc = "postWait"

\* C15: whenever getAccessToken returns a token, from the cache or from a
\* re-authentication, the token's expiry less the 60-second buffer (tokenExpiry)
\* is strictly in the future.
C15_ReturnedTokenNotExpired ==
  [][\A s \in Slots :
       TokenReturned(s) => (tokenExpiry' # <<>> /\ tokenExpiry'[1] > now')]_vars

\* C16: after clearToken has returned, the next getAccessToken call issues a
\* re-authentication request (POST /oauth/token) instead of returning a cached
\* token.
C16_ClearForcesReauthentication ==
  [][\A s \in Slots :
       (/\ cleared
        /\ hooks[s].pc = "idle"
        /\ hooks'[s].pc \in {"authWait", "postWait"})
       => hooks'[s].pc = "authWait"]_vars

\* C17: an invocation that waits for POST /oauth/token leaves that wait in one
\* of two ways: with a token issued now, cached and used for the POST to the
\* settlement endpoint, or, when authentication fails, by throwing the
\* notification failure with no POST made, no ledger entry written and the
\* credential cache as it was.
C17_AuthenticationFailureFailsNotification ==
  [][\A s \in Slots :
       (hooks[s].pc = "authWait" /\ hooks'[s] # hooks[s])
       => \/ /\ hooks'[s].pc = "postWait"
             /\ accessToken' = <<AccessToken(now)>>
             /\ tokenExpiry' # <<>>
          \/ /\ hooks'[s] = IdleHook
             /\ returned' = "notify_error"
             /\ notifyOk' = notifyOk
             /\ store' = store
             /\ accessToken' = accessToken
             /\ tokenExpiry' = tokenExpiry]_vars

\* C17 witness: a notification has failed on authentication: no token is cached,
\* the record carries the delivered status and no notification was accepted
C17_Witness ==
  /\ returned = "notify_error"
  /\ accessToken = <<>>
  /\ \E k \in DOMAIN transactions :
       transactions[k].status \in TerminalStatuses /\ notifyOk[k] = 0

\* C18: every call of determineGateway made by initiatePayment yields mpesa or
\* airtel, the same channel as every earlier call with the same subscriber
\* identifier, whatever was stored, answered or rejected in between, and the
\* step writes nothing but the new record: the records already in the registry,
\* the ledger and the credential cache are as before.
C18_RoutingTotalDeterministicPure ==
  [][\A i \in InitIds :
       (inits[i].pc = "idle" /\ inits'[i].pc = "gateway")
       => LET t == inits'[i].txn
              rec == transactions'[t]
          IN /\ rec.gateway \in {"mpesa", "airtel"}
             /\ \A k \in DOMAIN transactions :
                  /\ transactions'[k] = transactions[k]
                  /\ transactions[k].msisdn = rec.msisdn
                       => transactions[k].gateway = rec.gateway
             /\ store' = store
             /\ accessToken' = accessToken
             /\ tokenExpiry' = tokenExpiry]_vars

\* C18 witness: the same identifier, one without a listed prefix, was routed
\* twice, the channel having answered the first initiation before the second
C18_Witness ==
  \E k, j \in DOMAIN transactions :
    /\ k < j
    /\ transactions[k].msisdn = transactions[j].msisdn
    /\ transactions[k].msisdn = <<0,0,2,5,4,7,6>>
    /\ transactions[k].gatewayReference # NoRef
    /\ transactions[j].gatewayReference = NoRef
    /\ transactions[k].gateway = transactions[j].gateway

\* C19: every record is routed by the prefix policy: 00254 followed by 70, 71,
\* 72 or 79 to mpesa; 00254 followed by 73, 74, 75 or 77 to airtel; any other
\* identifier starting 00254 to mpesa; every identifier not starting 00254 to
\* airtel.
C19_RoutingFollowsPrefixPolicy ==
  \A k \in DOMAIN transactions :
    LET m == transactions[k].msisdn
        kenya == Len(m) >= 5 /\ SubSeq(m, 1, 5) = <<0,0,2,5,4>>
        next2 == IF Len(m) >= 7 THEN <<m[6], m[7]>> ELSE <<>>
        listedMpesa == {<<7,0>>, <<7,1>>, <<7,2>>, <<7,9>>}
        listedAirtel == {<<7,3>>, <<7,4>>, <<7,5>>, <<7,7>>}
    IN /\ (kenya /\ next2 \in listedMpesa) => transactions[k].gateway = "mpesa"
       /\ (kenya /\ next2 \in listedAirtel) => transactions[k].gateway = "airtel"
       /\ (kenya /\ next2 \notin listedMpesa \cup listedAirtel)
            => transactions[k].gateway = "mpesa"
       /\ ~kenya => transactions[k].gateway = "airtel"

\* C19 witness: an identifier of the country default and one of another country
\* have both been routed
C19_Witness ==
  \E k, j \in DOMAIN transactions :
    /\ transactions[k].msisdn = <<0,0,2,5,4,7,8>>
    /\ transactions[k].gateway = "mpesa"
    /\ transactions[j].msisdn = <<0,0,2,5,6,7,0>>
    /\ transactions[j].gateway = "airtel"

\* C20: the reference in the payload handed to the Notifier is the delivery's
\* own mno_reference when the delivery carries a non-empty one, otherwise the
\* transaction identifier; it is never empty.
C20_ReportedReference ==
  \A s \in Slots :
    hooks[s].pc \in {"authWait", "postWait"}
    => LET webhook == hooks[s].webhook
           reported == hooks[s].payload.mno_reference
       IN /\ webhook.mno_reference # NoRef => reported = webhook.mno_reference
          /\ webhook.mno_reference = NoRef
               => reported = <<"TXN", webhook.transaction_id>>
          /\ reported # NoRef

\* C20 witness: a delivery without mno_reference is being reported to the
\* Notifier under the transaction identifier
C20_Witness ==
  \E s \in Slots :
    /\ hooks[s].pc = "postWait"
    /\ hooks[s].webhook.mno_reference = NoRef
    /\ hooks[s].payload.mno_reference = <<"TXN", hooks[s].webhook.transaction_id>>

\* C21: an invocation that has called the Notifier has called it once, with the
\* payload of its delivery's outcome: Succeeded (notifyPaymentSuccess) for a
\* completed delivery, Failed (notifyPaymentFailure) for a failed one; a pending
\* delivery calls neither.
C21_OutcomeMapping ==
  \A s \in Slots :
    hooks[s].pc \in {"authWait", "postWait"}
    => \/ hooks[s].webhook.status = "completed" /\ hooks[s].payload.kind = "Succeeded"
       \/ hooks[s].webhook.status = "failed" /\ hooks[s].payload.kind = "Failed"

\* C21 witness: a failed delivery and a completed delivery are both being
\* reported, each under its own outcome
C21_Witness ==
  \E s, r \in Slots :
    /\ hooks[s].pc \in {"authWait", "postWait"}
    /\ hooks[r].pc \in {"authWait", "postWait"}
    /\ hooks[s].payload.kind = "Failed"
    /\ hooks[r].payload.kind = "Succeeded"

\* C22: when handleWebhook reads the ledger for its key, get returns the stored
\* response if the entry's expiry has not passed (the delivery is a duplicate and
\* the store is as before), null for a key without entry, and null for an entry
\* whose expiry has passed, which it removes (the delivery is processed; the key
\* has no entry afterwards unless this invocation stores a new one). An entry
\* written by set carries the set time plus the TTL as expiry, and a get that
\* follows returns the response just stored.
C22_LedgerReadSemantics ==
  [][/\ HandlerCalled =>
          \A webhook \in Webhooks, s \in Slots :
            handleWebhook(s, webhook)
            => LET key == webhook.transaction_id
                   live == key \in DOMAIN store /\ store[key].expiresAt >= now
               IN /\ live => /\ IdempotencyGet(key) = store[key].response
                             /\ WebhookDuplicate(s, webhook)
                             /\ store' = store
                  /\ ~live => /\ IdempotencyGet(key) = NullResponse
                              /\ ~WebhookDuplicate(s, webhook)
                              /\ \A k \in DOMAIN store \ {key} :
                                   k \in DOMAIN store' /\ store'[k] = store[k]
                  /\ (key \in DOMAIN store /\ ~live)
                       => \/ key \notin DOMAIN store'
                          \/ store'[key].expiresAt = now + ttl
     /\ \A k \in DOMAIN store' :
          (k \notin DOMAIN store \/ store'[k] # store[k])
          => /\ store'[k].expiresAt = now + ttl
             /\ store'[k].response.timestamp = now
             /\ IdempotencyGet(k)' = store'[k].response]_vars

\* C22 witness: a delivery read the ledger after its key's entry had expired:
\* get removed the entry and the delivery is in the Notifier a second time
C22_Witness ==
  \E s \in Slots :
    /\ hooks[s].pc \in {"authWait", "postWait"}
    /\ notifyOk[hooks[s].webhook.transaction_id] >= 1
    /\ hooks[s].webhook.transaction_id \notin DOMAIN store
    /\ now > ttl

\* C23: a ledger entry whose expiry has not passed is never changed: no step,
\* a second set for the same key included, alters its response or its expiry.
C23_LedgerEntryWriteOnce ==
  [][\A k \in DOMAIN store :
       store[k].expiresAt >= now
       => (k \in DOMAIN store' /\ store'[k] = store[k])]_vars

\* C24: a sweep of the ledger (a step that changes the store and belongs to no
\* handler invocation) removes exactly the entries whose expiry has passed and
\* leaves every other entry, response and expiry, as it was.
C24_SweepRemovesExactlyExpired ==
  [][(store' # store /\ calls' = calls /\ hooks' = hooks)
     => /\ DOMAIN store' = {k \in DOMAIN store : store[k].expiresAt >= now}
        /\ \A k \in DOMAIN store' : store'[k] = store[k]]_vars

\* C24 witness: the entry of a notified transaction has been swept: the one
\* delivery made so far wrote it, and no later delivery has read the ledger
C24_Witness ==
  \E k \in DOMAIN transactions :
    /\ notifyOk[k] = 1
    /\ k \notin DOMAIN store
    /\ calls = 2
    /\ now > ttl

\* C25: getTransaction returns the record of every id created so far and
\* absence for every other id; a status request that reaches getPaymentStatus
\* is answered 200 with the fields of the current record when the id is known
\* and 404 NOT_FOUND when it is not, and leaves registry and ledger as they were.
C25_StatusQueryReadOnlyTotal ==
  [][/\ \A id \in TxnIds :
          getTransaction(id) = IF id < nextTxn THEN transactions[id] ELSE NoTransaction
     /\ (HandlerCalled /\ http'.req.route = "status"
           /\ http'.res.by = "getPaymentStatus" /\ HttpStatus(http'.req))
        => LET id == http'.req.id
           IN /\ id \in DOMAIN transactions
                   => /\ http'.res.status = 200
                      /\ http'.res.record.transaction_id = id
                      /\ http'.res.record.status = transactions[id].status
                      /\ http'.res.record.policy_guid = transactions[id].policyGuid
                      /\ http'.res.record.amount = transactions[id].amount
                      /\ http'.res.record.gateway_reference
                           = transactions[id].gatewayReference
              /\ id \notin DOMAIN transactions
                   => http'.res.status = 404 /\ http'.res.code = "NOT_FOUND"
              /\ transactions' = transactions
              /\ store' = store]_vars

\* C25 witness: a status request for a record the channel has answered was
\* answered 200 while the ledger holds an entry
C25_Witness ==
  /\ http.res.by = "getPaymentStatus"
  /\ http.res.status = 200
  /\ http.res.record.gateway_reference # NoRef
  /\ store # <<>>

\* C26: a POST /initiate request that carries the configured key and a body
\* satisfying InitiatePaymentRequestSchema is not answered by the
\* authentication or the validation middleware: it reaches the controller.
C26_ValidInitiateReachesController ==
  (/\ http.req.route = "initiate"
   /\ RequestApiKey(http.req) = ApiKey
   /\ InitiatePaymentRequestSchema(http.req.body)
   /\ http.req.body.amount = KesAmount)
  => http.res.by \notin {"authenticateApiKey", "validate"}

\* C27: a request to a route behind authenticateApiKey passes the middleware
\* if and only if the key of its x-api-key header or, when that header is
\* absent, the second token of its Authorization header is the configured key;
\* otherwise authenticateApiKey answers 401 and nothing behind it runs.
C27_ApiKeyGate ==
  http.req.route \in {"status", "initiate"}
  => LET key == IF http.req.xApiKey # <<>> THEN http.req.xApiKey
                ELSE SecondToken(http.req.authorization)
     IN /\ key = ApiKey <=> http.res.by # "authenticateApiKey"
        /\ key # ApiKey => http.res.status = 401

\* C27 witness: a request carrying the key as second token of Authorization
\* has reached getPaymentStatus
C27_Witness ==
  /\ http.req.xApiKey = <<>>
  /\ http.req.authorization = <<"B", " ", "k">>
  /\ http.res.by = "getPaymentStatus"

\* C28: validateWebhookSignature answers 401 when x-signature or x-webhook-id
\* is missing and 400 when the signature is rejected; only otherwise does the
\* request pass, with webhookContext holding the received id and signature.
C28_WebhookSignatureGate ==
  http.req.route = "webhook"
  => LET missing == http.req.signature = "" \/ http.req.webhookId = ""
         rejected == ~missing /\ http.req.signature = "invalid_signature"
     IN /\ missing => http.res.by = "validateWebhookSignature" /\ http.res.status = 401
        /\ rejected => http.res.by = "validateWebhookSignature" /\ http.res.status = 400
        /\ (~missing /\ ~rejected)
             => /\ http.res.by # "validateWebhookSignature"
                /\ http.res.context =
                     [id |-> http.req.webhookId, signature |-> http.req.signature]
        /\ http.res.by = "validateWebhookSignature" => http.res.context = NoContext

\* C28 witness: a signed delivery has passed the gate with its context attached
C28_Witness ==
  /\ http.req.route = "webhook"
  /\ http.res.by = "validate"
  /\ http.res.context = [id |-> "wh1", signature |-> "sig"]

C31_NoRetry ==
  [][/\ \A i \in InitIds :
          /\ (inits[i].pc = "idle" /\ inits'[i].pc = "gateway") => HandlerCalled
          /\ (inits[i].pc = "gateway" /\ inits'[i] # inits[i]) => inits'[i] = IdleInit
     /\ \A s \in Slots :
          /\ (hooks[s].pc = "idle" /\ hooks'[s].pc # "idle") => HandlerCalled
          /\ (hooks[s].pc = "authWait" /\ hooks'[s] # hooks[s])
               => \/ hooks'[s] = [hooks[s] EXCEPT !.pc = "postWait"]
                  \/ hooks'[s] = IdleHook
          /\ (hooks[s].pc = "postWait" /\ hooks'[s] # hooks[s])
               => hooks'[s] = IdleHook]_vars

\* C31 witness: a Notifier call has authenticated and its POST has failed; the
\* invocation has ended and nothing is in flight
C31_Witness ==
  /\ returned = "notify_error"
  /\ accessToken # <<>>
  /\ \A k \in TxnIds : notifyOk[k] = 0
  /\ \A s \in Slots : hooks[s].pc = "idle"
  /\ calls = 2

\* C32: a delivery with outcome completed or failed for a transaction whose
\* last processed delivery had outcome pending is processed: it writes its
\* status to the record and invokes the Notifier.
C32_PendingDoesNotSuppressOutcome ==
  [][HandlerCalled =>
       \A webhook \in Webhooks :
         (/\ webhook.status \in {"completed", "failed"}
          /\ webhook.transaction_id \in DOMAIN transactions
          /\ webhook.transaction_id \in DOMAIN store
          /\ store[webhook.transaction_id].response.status = "pending")
         => \A s \in Slots :
              handleWebhook(s, webhook)
              => /\ transactions'[webhook.transaction_id].status = webhook.status
                 /\ NotifierInvoked(webhook.transaction_id)]_vars

C34_StateMachineShape ==
  [][\A k \in DOMAIN transactions :
       LET before == transactions[k].status
           after == transactions'[k].status
       IN /\ (after \in TerminalStatuses /\ after # before) => before = "processing"
          /\ (after = "processing" /\ after # before) => before = "pending"
          /\ (\E s \in Slots, webhook \in Webhooks : handleWebhook(s, webhook))
               => ~(before = "pending" /\ after \in TerminalStatuses)]_vars

\* C35: the record is created before the channel call is dispatched. Every
\* transaction whose channel call has been dispatched (its id has been issued)
\* is in the registry, and a delivery for it, also one that starts while
\* initiatePayment still awaits the channel, finds the record: it never ends
\* with 'Transaction not found'.
C35_RecordBeforeChannelCall ==
  [][/\ \A i \in InitIds : inits'[i].pc = "gateway" => inits'[i].txn \in DOMAIN transactions'
     /\ HandlerCalled =>
          \A webhook \in Webhooks :
            webhook.transaction_id < nextTxn
            => \A s \in Slots :
                 handleWebhook(s, webhook)
                 => /\ webhook.transaction_id \in DOMAIN transactions
                    /\ ~WebhookUnknown(s, webhook)]_vars

\* C35 witness: a delivery for a transaction was processed up to its Notifier
\* call while initiatePayment for that transaction still awaits the channel
C35_Witness ==
  \E i \in InitIds, s \in Slots :
    /\ inits[i].pc = "gateway"
    /\ hooks[s].pc \in {"authWait", "postWait"}
    /\ hooks[s].webhook.transaction_id = inits[i].txn
    /\ transactions[inits[i].txn].status \in TerminalStatuses

\* C36: the notification carries the policy id and the amount of the stored
\* record, not the amount the delivery declares, and a delivery that declares
\* another amount or currency than the record's is processed like the
\* matching one: the same write of the record, the same notification payload
\* and the same ledger entry.
C36_DeclaredAmountIgnored ==
  [][\A s \in Slots :
       /\ (hooks[s].pc = "idle" /\ hooks'[s].pc # "idle")
            => LET webhook == hooks'[s].webhook
                   id == webhook.transaction_id
                   matching == MatchingWebhook(webhook, transactions[id])
               IN /\ hooks'[s].payload.policy_guid = transactions[id].policyGuid
                  /\ hooks'[s].payload.amount_in_cents = transactions[id].amount * 100
                  /\ hooks'[s].payload = NotifyPayload(matching, transactions[id])
                  /\ hooks'[s].pc = IF TokenValid THEN "postWait" ELSE "authWait"
                  /\ transactions' =
                       [transactions EXCEPT ![id] = UpdatedTransaction(@, matching)]
                  /\ store' = StoreAfterGet(id)
       /\ (hooks[s].pc = "postWait" /\ notifyOk' # notifyOk /\ hooks'[s].pc = "idle")
            => LET webhook == hooks[s].webhook
                   id == webhook.transaction_id
                   matching == MatchingWebhook(webhook, transactions[id])
               IN /\ store' = StoreAfterSet(store, id, LedgerResponse(matching))
                  /\ transactions' = transactions
       /\ HandlerCalled =>
            \A webhook \in DeclaredWebhooks :
              (webhook.status = "pending" /\ WebhookPending(s, webhook))
              => LET id == webhook.transaction_id
                     matching == MatchingWebhook(webhook, transactions[id])
                 IN /\ transactions' =
                         [transactions EXCEPT ![id] = UpdatedTransaction(@, matching)]
                    /\ store' = StoreAfterSet(StoreAfterGet(id), id, LedgerResponse(matching))]_vars

\* C36 witness: the notification of a delivery that declared another amount
\* and another currency than the record's is being posted with the record's amount
C36_Witness ==
  \E s \in Slots :
    /\ hooks[s].pc = "postWait"
    /\ hooks[s].webhook.amount # transactions[hooks[s].webhook.transaction_id].amount
    /\ hooks[s].webhook.currency # transactions[hooks[s].webhook.transaction_id].currency
    /\ hooks[s].payload.amount_in_cents =
         transactions[hooks[s].webhook.transaction_id].amount * 100

\* C37: the credential is replaced wholesale. In every state between two
\* turns accessToken is null exactly when tokenExpiry is null, and every turn
\* that writes the cache (authenticate, also of overlapping calls, and
\* clearToken) either clears both fields or stores the token of one response
\* together with the expiry computed from the expires_in of that response.
C37_CredentialReplacedWholesale ==
  /\ []((accessToken = <<>>) <=> (tokenExpiry = <<>>))
  /\ [][(accessToken' # accessToken \/ tokenExpiry' # tokenExpiry)
          => \/ accessToken' = <<>> /\ tokenExpiry' = <<>>
             \/ \E expires_in \in ExpiresInValues :
                  /\ accessToken' = <<AccessToken(now)>>
                  /\ tokenExpiry' = <<now + expires_in - TokenBuffer>>]_vars

\* C37 witness: clearToken ran while two authenticate calls overlapped; since
\* then the first has cached its response and the second still awaits its own
C37_Witness ==
  /\ cleared
  /\ accessToken # <<>>
  /\ tokenExpiry # <<>>
  /\ \E s1, s2 \in Slots : hooks[s1].pc = "postWait" /\ hooks[s2].pc = "authWait"

\* C38: a failed authentication leaves accessToken and tokenExpiry as they
\* were, and the failure is not cached: whatever failed before, a Notifier
\* call that finds no valid token attempts authentication again.
C38_FailedAuthenticationNotCached ==
  [][\A s \in Slots :
       /\ (hooks[s].pc = "authWait" /\ hooks'[s].pc = "idle")
            => accessToken' = accessToken /\ tokenExpiry' = tokenExpiry
       /\ (hooks[s].pc = "idle" /\ hooks'[s].pc # "idle" /\ ~TokenValid)
            => hooks'[s].pc = "authWait"]_vars

\* C38 witness: an authentication has failed, the cache is empty as before,
\* and the only Notifier call in flight is awaiting a new authentication
C38_Witness ==
  /\ returned = "notify_error"
  /\ accessToken = <<>>
  /\ tokenExpiry = <<>>
  /\ hooks[1].pc = "authWait"
  /\ \A s \in Slots \ {1} : hooks[s].pc = "idle"
  /\ \A i \in InitIds : inits[i].pc = "idle"

====
